---- MODULE Spec2Model ----
(***************************************************************************)
(* Model of src/analysis.py: the statistical audit of a sample of          *)
(* Companies House records.  Strings are sequences of code points, JSON     *)
(* values are tagged records, and every pass of the script over the sample *)
(* is a loop whose body is one action.                                     *)
(***************************************************************************)
EXTENDS Integers, Sequences, FiniteSets, TLC

VARIABLES
    variant_file,   \* lines of UK_VARIANT_FILE, as read
    sampled,        \* data['sampled_companies'] values, in iteration order
    today,          \* datetime.utcnow().date(), as <<year, month, day>>
    entry,          \* the function the run was started in
    pc,             \* the stage the run is in
    i,              \* companies already processed by the current pass
    uk_variants,    \* load_UK_variants()
    countries,      \* extract_director_countries(sampled)
    counts,         \* counts of count_companies_by_uk_director_status
    metrics,        \* metrics of analyze_compliance
    cls,            \* has_uk of each company processed by the count pass
    grp,            \* group of each company processed by analyze_compliance
    listed,         \* the countries inspect_countries printed
    output,         \* what has been printed, one entry per printed section or line
    err             \* the exception that ended the run, or "none"

vars == <<variant_file, sampled, today, entry, pc, i, uk_variants, countries,
          counts, metrics, cls, grp, listed, output, err>>

----------------------------------------------------------------------------
\* Bounds of the model.

MaxCompanies == 2
MaxDirectors == 2
MaxTally == 2

----------------------------------------------------------------------------
\* Python strings and their methods.  A string is the sequence of the code
\* points of its characters: 'UK' is <<85, 75>>.

\* the characters str.strip() removes: those str.isspace() is true of
Whitespace ==
    {9, 10, 11, 12, 13, 28, 29, 30, 31, 32, 133, 160, 5760, 8192, 8193, 8194,
     8195, 8196, 8197, 8198, 8199, 8200, 8201, 8202, 8232, 8233, 8239, 8287,
     12288}

\* Case mappings of the characters above U+007F, as <<first, last, step,
\* offset>>: every step-th character from first to last maps to the character
\* offset code points away.  The characters that map to more than one
\* character are listed apart, each with its mapping.

\* str.lower()
LowerRuns ==
    {<<192, 214, 1, 32>>, <<216, 222, 1, 32>>, <<256, 302, 2, 1>>, <<306,
     310, 2, 1>>, <<313, 327, 2, 1>>, <<330, 374, 2, 1>>, <<376, 376, 1,
     -121>>, <<377, 381, 2, 1>>, <<385, 385, 1, 210>>, <<386, 388, 2, 1>>,
     <<390, 390, 1, 206>>, <<391, 391, 1, 1>>, <<393, 394, 1, 205>>, <<395,
     395, 1, 1>>, <<398, 398, 1, 79>>, <<399, 399, 1, 202>>, <<400, 400, 1,
     203>>, <<401, 401, 1, 1>>, <<403, 403, 1, 205>>, <<404, 404, 1, 207>>,
     <<406, 406, 1, 211>>, <<407, 407, 1, 209>>, <<408, 408, 1, 1>>, <<412,
     412, 1, 211>>, <<413, 413, 1, 213>>, <<415, 415, 1, 214>>, <<416, 420,
     2, 1>>, <<422, 422, 1, 218>>, <<423, 423, 1, 1>>, <<425, 425, 1, 218>>,
     <<428, 428, 1, 1>>, <<430, 430, 1, 218>>, <<431, 431, 1, 1>>, <<433,
     434, 1, 217>>, <<435, 437, 2, 1>>, <<439, 439, 1, 219>>, <<440, 440, 1,
     1>>, <<444, 444, 1, 1>>, <<452, 452, 1, 2>>, <<453, 453, 1, 1>>, <<455,
     455, 1, 2>>, <<456, 456, 1, 1>>, <<458, 458, 1, 2>>, <<459, 475, 2, 1>>,
     <<478, 494, 2, 1>>, <<497, 497, 1, 2>>, <<498, 500, 2, 1>>, <<502, 502,
     1, -97>>, <<503, 503, 1, -56>>, <<504, 542, 2, 1>>, <<544, 544, 1,
     -130>>, <<546, 562, 2, 1>>, <<570, 570, 1, 10795>>, <<571, 571, 1, 1>>,
     <<573, 573, 1, -163>>, <<574, 574, 1, 10792>>, <<577, 577, 1, 1>>,
     <<579, 579, 1, -195>>, <<580, 580, 1, 69>>, <<581, 581, 1, 71>>, <<582,
     590, 2, 1>>, <<880, 882, 2, 1>>, <<886, 886, 1, 1>>, <<895, 895, 1,
     116>>, <<902, 902, 1, 38>>, <<904, 906, 1, 37>>, <<908, 908, 1, 64>>,
     <<910, 911, 1, 63>>, <<913, 929, 1, 32>>, <<931, 939, 1, 32>>, <<975,
     975, 1, 8>>, <<984, 1006, 2, 1>>, <<1012, 1012, 1, -60>>, <<1015, 1015,
     1, 1>>, <<1017, 1017, 1, -7>>, <<1018, 1018, 1, 1>>, <<1021, 1023, 1,
     -130>>, <<1024, 1039, 1, 80>>, <<1040, 1071, 1, 32>>, <<1120, 1152, 2,
     1>>, <<1162, 1214, 2, 1>>, <<1216, 1216, 1, 15>>, <<1217, 1229, 2, 1>>,
     <<1232, 1326, 2, 1>>, <<1329, 1366, 1, 48>>, <<4256, 4293, 1, 7264>>,
     <<4295, 4295, 1, 7264>>, <<4301, 4301, 1, 7264>>, <<5024, 5103, 1,
     38864>>, <<5104, 5109, 1, 8>>, <<7312, 7354, 1, -3008>>, <<7357, 7359,
     1, -3008>>, <<7680, 7828, 2, 1>>, <<7838, 7838, 1, -7615>>, <<7840,
     7934, 2, 1>>, <<7944, 7951, 1, -8>>, <<7960, 7965, 1, -8>>, <<7976,
     7983, 1, -8>>, <<7992, 7999, 1, -8>>, <<8008, 8013, 1, -8>>, <<8025,
     8031, 2, -8>>, <<8040, 8047, 1, -8>>, <<8072, 8079, 1, -8>>, <<8088,
     8095, 1, -8>>, <<8104, 8111, 1, -8>>, <<8120, 8121, 1, -8>>, <<8122,
     8123, 1, -74>>, <<8124, 8124, 1, -9>>, <<8136, 8139, 1, -86>>, <<8140,
     8140, 1, -9>>, <<8152, 8153, 1, -8>>, <<8154, 8155, 1, -100>>, <<8168,
     8169, 1, -8>>, <<8170, 8171, 1, -112>>, <<8172, 8172, 1, -7>>, <<8184,
     8185, 1, -128>>, <<8186, 8187, 1, -126>>, <<8188, 8188, 1, -9>>, <<8486,
     8486, 1, -7517>>, <<8490, 8490, 1, -8383>>, <<8491, 8491, 1, -8262>>,
     <<8498, 8498, 1, 28>>, <<8544, 8559, 1, 16>>, <<8579, 8579, 1, 1>>,
     <<9398, 9423, 1, 26>>, <<11264, 11311, 1, 48>>, <<11360, 11360, 1, 1>>,
     <<11362, 11362, 1, -10743>>, <<11363, 11363, 1, -3814>>, <<11364, 11364,
     1, -10727>>, <<11367, 11371, 2, 1>>, <<11373, 11373, 1, -10780>>,
     <<11374, 11374, 1, -10749>>, <<11375, 11375, 1, -10783>>, <<11376,
     11376, 1, -10782>>, <<11378, 11378, 1, 1>>, <<11381, 11381, 1, 1>>,
     <<11390, 11391, 1, -10815>>, <<11392, 11490, 2, 1>>, <<11499, 11501, 2,
     1>>, <<11506, 11506, 1, 1>>, <<42560, 42604, 2, 1>>, <<42624, 42650, 2,
     1>>, <<42786, 42798, 2, 1>>, <<42802, 42862, 2, 1>>, <<42873, 42875, 2,
     1>>, <<42877, 42877, 1, -35332>>, <<42878, 42886, 2, 1>>, <<42891,
     42891, 1, 1>>, <<42893, 42893, 1, -42280>>, <<42896, 42898, 2, 1>>,
     <<42902, 42920, 2, 1>>, <<42922, 42922, 1, -42308>>, <<42923, 42923, 1,
     -42319>>, <<42924, 42924, 1, -42315>>, <<42925, 42925, 1, -42305>>,
     <<42926, 42926, 1, -42308>>, <<42928, 42928, 1, -42258>>, <<42929,
     42929, 1, -42282>>, <<42930, 42930, 1, -42261>>, <<42931, 42931, 1,
     928>>, <<42932, 42946, 2, 1>>, <<42948, 42948, 1, -48>>, <<42949, 42949,
     1, -42307>>, <<42950, 42950, 1, -35384>>, <<42951, 42953, 2, 1>>,
     <<42960, 42960, 1, 1>>, <<42966, 42968, 2, 1>>, <<42997, 42997, 1, 1>>,
     <<65313, 65338, 1, 32>>, <<66560, 66599, 1, 40>>, <<66736, 66771, 1,
     40>>, <<66928, 66938, 1, 39>>, <<66940, 66954, 1, 39>>, <<66956, 66962,
     1, 39>>, <<66964, 66965, 1, 39>>, <<68736, 68786, 1, 64>>, <<71840,
     71871, 1, 32>>, <<93760, 93791, 1, 32>>, <<125184, 125217, 1, 34>>}

LowerSpecial ==
    {<<304, <<105, 775>>>>}

\* str.casefold()
FoldRuns ==
    {<<181, 181, 1, 775>>, <<192, 214, 1, 32>>, <<216, 222, 1, 32>>, <<256,
     302, 2, 1>>, <<306, 310, 2, 1>>, <<313, 327, 2, 1>>, <<330, 374, 2, 1>>,
     <<376, 376, 1, -121>>, <<377, 381, 2, 1>>, <<383, 383, 1, -268>>, <<385,
     385, 1, 210>>, <<386, 388, 2, 1>>, <<390, 390, 1, 206>>, <<391, 391, 1,
     1>>, <<393, 394, 1, 205>>, <<395, 395, 1, 1>>, <<398, 398, 1, 79>>,
     <<399, 399, 1, 202>>, <<400, 400, 1, 203>>, <<401, 401, 1, 1>>, <<403,
     403, 1, 205>>, <<404, 404, 1, 207>>, <<406, 406, 1, 211>>, <<407, 407,
     1, 209>>, <<408, 408, 1, 1>>, <<412, 412, 1, 211>>, <<413, 413, 1,
     213>>, <<415, 415, 1, 214>>, <<416, 420, 2, 1>>, <<422, 422, 1, 218>>,
     <<423, 423, 1, 1>>, <<425, 425, 1, 218>>, <<428, 428, 1, 1>>, <<430,
     430, 1, 218>>, <<431, 431, 1, 1>>, <<433, 434, 1, 217>>, <<435, 437, 2,
     1>>, <<439, 439, 1, 219>>, <<440, 440, 1, 1>>, <<444, 444, 1, 1>>,
     <<452, 452, 1, 2>>, <<453, 453, 1, 1>>, <<455, 455, 1, 2>>, <<456, 456,
     1, 1>>, <<458, 458, 1, 2>>, <<459, 475, 2, 1>>, <<478, 494, 2, 1>>,
     <<497, 497, 1, 2>>, <<498, 500, 2, 1>>, <<502, 502, 1, -97>>, <<503,
     503, 1, -56>>, <<504, 542, 2, 1>>, <<544, 544, 1, -130>>, <<546, 562, 2,
     1>>, <<570, 570, 1, 10795>>, <<571, 571, 1, 1>>, <<573, 573, 1, -163>>,
     <<574, 574, 1, 10792>>, <<577, 577, 1, 1>>, <<579, 579, 1, -195>>,
     <<580, 580, 1, 69>>, <<581, 581, 1, 71>>, <<582, 590, 2, 1>>, <<837,
     837, 1, 116>>, <<880, 882, 2, 1>>, <<886, 886, 1, 1>>, <<895, 895, 1,
     116>>, <<902, 902, 1, 38>>, <<904, 906, 1, 37>>, <<908, 908, 1, 64>>,
     <<910, 911, 1, 63>>, <<913, 929, 1, 32>>, <<931, 939, 1, 32>>, <<962,
     962, 1, 1>>, <<975, 975, 1, 8>>, <<976, 976, 1, -30>>, <<977, 977, 1,
     -25>>, <<981, 981, 1, -15>>, <<982, 982, 1, -22>>, <<984, 1006, 2, 1>>,
     <<1008, 1008, 1, -54>>, <<1009, 1009, 1, -48>>, <<1012, 1012, 1, -60>>,
     <<1013, 1013, 1, -64>>, <<1015, 1015, 1, 1>>, <<1017, 1017, 1, -7>>,
     <<1018, 1018, 1, 1>>, <<1021, 1023, 1, -130>>, <<1024, 1039, 1, 80>>,
     <<1040, 1071, 1, 32>>, <<1120, 1152, 2, 1>>, <<1162, 1214, 2, 1>>,
     <<1216, 1216, 1, 15>>, <<1217, 1229, 2, 1>>, <<1232, 1326, 2, 1>>,
     <<1329, 1366, 1, 48>>, <<4256, 4293, 1, 7264>>, <<4295, 4295, 1, 7264>>,
     <<4301, 4301, 1, 7264>>, <<5112, 5117, 1, -8>>, <<7296, 7296, 1,
     -6222>>, <<7297, 7297, 1, -6221>>, <<7298, 7298, 1, -6212>>, <<7299,
     7300, 1, -6210>>, <<7301, 7301, 1, -6211>>, <<7302, 7302, 1, -6204>>,
     <<7303, 7303, 1, -6180>>, <<7304, 7304, 1, 35267>>, <<7312, 7354, 1,
     -3008>>, <<7357, 7359, 1, -3008>>, <<7680, 7828, 2, 1>>, <<7835, 7835,
     1, -58>>, <<7840, 7934, 2, 1>>, <<7944, 7951, 1, -8>>, <<7960, 7965, 1,
     -8>>, <<7976, 7983, 1, -8>>, <<7992, 7999, 1, -8>>, <<8008, 8013, 1,
     -8>>, <<8025, 8031, 2, -8>>, <<8040, 8047, 1, -8>>, <<8120, 8121, 1,
     -8>>, <<8122, 8123, 1, -74>>, <<8126, 8126, 1, -7173>>, <<8136, 8139, 1,
     -86>>, <<8152, 8153, 1, -8>>, <<8154, 8155, 1, -100>>, <<8168, 8169, 1,
     -8>>, <<8170, 8171, 1, -112>>, <<8172, 8172, 1, -7>>, <<8184, 8185, 1,
     -128>>, <<8186, 8187, 1, -126>>, <<8486, 8486, 1, -7517>>, <<8490, 8490,
     1, -8383>>, <<8491, 8491, 1, -8262>>, <<8498, 8498, 1, 28>>, <<8544,
     8559, 1, 16>>, <<8579, 8579, 1, 1>>, <<9398, 9423, 1, 26>>, <<11264,
     11311, 1, 48>>, <<11360, 11360, 1, 1>>, <<11362, 11362, 1, -10743>>,
     <<11363, 11363, 1, -3814>>, <<11364, 11364, 1, -10727>>, <<11367, 11371,
     2, 1>>, <<11373, 11373, 1, -10780>>, <<11374, 11374, 1, -10749>>,
     <<11375, 11375, 1, -10783>>, <<11376, 11376, 1, -10782>>, <<11378,
     11378, 1, 1>>, <<11381, 11381, 1, 1>>, <<11390, 11391, 1, -10815>>,
     <<11392, 11490, 2, 1>>, <<11499, 11501, 2, 1>>, <<11506, 11506, 1, 1>>,
     <<42560, 42604, 2, 1>>, <<42624, 42650, 2, 1>>, <<42786, 42798, 2, 1>>,
     <<42802, 42862, 2, 1>>, <<42873, 42875, 2, 1>>, <<42877, 42877, 1,
     -35332>>, <<42878, 42886, 2, 1>>, <<42891, 42891, 1, 1>>, <<42893,
     42893, 1, -42280>>, <<42896, 42898, 2, 1>>, <<42902, 42920, 2, 1>>,
     <<42922, 42922, 1, -42308>>, <<42923, 42923, 1, -42319>>, <<42924,
     42924, 1, -42315>>, <<42925, 42925, 1, -42305>>, <<42926, 42926, 1,
     -42308>>, <<42928, 42928, 1, -42258>>, <<42929, 42929, 1, -42282>>,
     <<42930, 42930, 1, -42261>>, <<42931, 42931, 1, 928>>, <<42932, 42946,
     2, 1>>, <<42948, 42948, 1, -48>>, <<42949, 42949, 1, -42307>>, <<42950,
     42950, 1, -35384>>, <<42951, 42953, 2, 1>>, <<42960, 42960, 1, 1>>,
     <<42966, 42968, 2, 1>>, <<42997, 42997, 1, 1>>, <<43888, 43967, 1,
     -38864>>, <<65313, 65338, 1, 32>>, <<66560, 66599, 1, 40>>, <<66736,
     66771, 1, 40>>, <<66928, 66938, 1, 39>>, <<66940, 66954, 1, 39>>,
     <<66956, 66962, 1, 39>>, <<66964, 66965, 1, 39>>, <<68736, 68786, 1,
     64>>, <<71840, 71871, 1, 32>>, <<93760, 93791, 1, 32>>, <<125184,
     125217, 1, 34>>}

FoldSpecial ==
    {<<223, <<115, 115>>>>, <<304, <<105, 775>>>>, <<329, <<700, 110>>>>,
     <<496, <<106, 780>>>>, <<912, <<953, 776, 769>>>>, <<944, <<965, 776,
     769>>>>, <<1415, <<1381, 1410>>>>, <<7830, <<104, 817>>>>, <<7831,
     <<116, 776>>>>, <<7832, <<119, 778>>>>, <<7833, <<121, 778>>>>, <<7834,
     <<97, 702>>>>, <<7838, <<115, 115>>>>, <<8016, <<965, 787>>>>, <<8018,
     <<965, 787, 768>>>>, <<8020, <<965, 787, 769>>>>, <<8022, <<965, 787,
     834>>>>, <<8064, <<7936, 953>>>>, <<8065, <<7937, 953>>>>, <<8066,
     <<7938, 953>>>>, <<8067, <<7939, 953>>>>, <<8068, <<7940, 953>>>>,
     <<8069, <<7941, 953>>>>, <<8070, <<7942, 953>>>>, <<8071, <<7943,
     953>>>>, <<8072, <<7936, 953>>>>, <<8073, <<7937, 953>>>>, <<8074,
     <<7938, 953>>>>, <<8075, <<7939, 953>>>>, <<8076, <<7940, 953>>>>,
     <<8077, <<7941, 953>>>>, <<8078, <<7942, 953>>>>, <<8079, <<7943,
     953>>>>, <<8080, <<7968, 953>>>>, <<8081, <<7969, 953>>>>, <<8082,
     <<7970, 953>>>>, <<8083, <<7971, 953>>>>, <<8084, <<7972, 953>>>>,
     <<8085, <<7973, 953>>>>, <<8086, <<7974, 953>>>>, <<8087, <<7975,
     953>>>>, <<8088, <<7968, 953>>>>, <<8089, <<7969, 953>>>>, <<8090,
     <<7970, 953>>>>, <<8091, <<7971, 953>>>>, <<8092, <<7972, 953>>>>,
     <<8093, <<7973, 953>>>>, <<8094, <<7974, 953>>>>, <<8095, <<7975,
     953>>>>, <<8096, <<8032, 953>>>>, <<8097, <<8033, 953>>>>, <<8098,
     <<8034, 953>>>>, <<8099, <<8035, 953>>>>, <<8100, <<8036, 953>>>>,
     <<8101, <<8037, 953>>>>, <<8102, <<8038, 953>>>>, <<8103, <<8039,
     953>>>>, <<8104, <<8032, 953>>>>, <<8105, <<8033, 953>>>>, <<8106,
     <<8034, 953>>>>, <<8107, <<8035, 953>>>>, <<8108, <<8036, 953>>>>,
     <<8109, <<8037, 953>>>>, <<8110, <<8038, 953>>>>, <<8111, <<8039,
     953>>>>, <<8114, <<8048, 953>>>>, <<8115, <<945, 953>>>>, <<8116, <<940,
     953>>>>, <<8118, <<945, 834>>>>, <<8119, <<945, 834, 953>>>>, <<8124,
     <<945, 953>>>>, <<8130, <<8052, 953>>>>, <<8131, <<951, 953>>>>, <<8132,
     <<942, 953>>>>, <<8134, <<951, 834>>>>, <<8135, <<951, 834, 953>>>>,
     <<8140, <<951, 953>>>>, <<8146, <<953, 776, 768>>>>, <<8147, <<953, 776,
     769>>>>, <<8150, <<953, 834>>>>, <<8151, <<953, 776, 834>>>>, <<8162,
     <<965, 776, 768>>>>, <<8163, <<965, 776, 769>>>>, <<8164, <<961,
     787>>>>, <<8166, <<965, 834>>>>, <<8167, <<965, 776, 834>>>>, <<8178,
     <<8060, 953>>>>, <<8179, <<969, 953>>>>, <<8180, <<974, 953>>>>, <<8182,
     <<969, 834>>>>, <<8183, <<969, 834, 953>>>>, <<8188, <<969, 953>>>>,
     <<64256, <<102, 102>>>>, <<64257, <<102, 105>>>>, <<64258, <<102,
     108>>>>, <<64259, <<102, 102, 105>>>>, <<64260, <<102, 102, 108>>>>,
     <<64261, <<115, 116>>>>, <<64262, <<115, 116>>>>, <<64275, <<1396,
     1398>>>>, <<64276, <<1396, 1381>>>>, <<64277, <<1396, 1387>>>>, <<64278,
     <<1406, 1398>>>>, <<64279, <<1396, 1389>>>>}

\* The cased characters (those that are also case-ignorable left out) and the
\* case-ignorable characters, as <<first, last>>: str.lower() turns a capital
\* sigma into a final sigma by what stands around it.
CasedRanges ==
    {<<65, 90>>, <<97, 122>>, <<170, 170>>, <<181, 181>>, <<186, 186>>,
     <<192, 214>>, <<216, 246>>, <<248, 442>>, <<444, 447>>, <<452, 659>>,
     <<661, 687>>, <<880, 883>>, <<886, 887>>, <<891, 893>>, <<895, 895>>,
     <<902, 902>>, <<904, 906>>, <<908, 908>>, <<910, 929>>, <<931, 1013>>,
     <<1015, 1153>>, <<1162, 1327>>, <<1329, 1366>>, <<1376, 1416>>, <<4256,
     4293>>, <<4295, 4295>>, <<4301, 4301>>, <<4304, 4346>>, <<4349, 4351>>,
     <<5024, 5109>>, <<5112, 5117>>, <<7296, 7304>>, <<7312, 7354>>, <<7357,
     7359>>, <<7424, 7467>>, <<7531, 7543>>, <<7545, 7578>>, <<7680, 7957>>,
     <<7960, 7965>>, <<7968, 8005>>, <<8008, 8013>>, <<8016, 8023>>, <<8025,
     8025>>, <<8027, 8027>>, <<8029, 8029>>, <<8031, 8061>>, <<8064, 8116>>,
     <<8118, 8124>>, <<8126, 8126>>, <<8130, 8132>>, <<8134, 8140>>, <<8144,
     8147>>, <<8150, 8155>>, <<8160, 8172>>, <<8178, 8180>>, <<8182, 8188>>,
     <<8450, 8450>>, <<8455, 8455>>, <<8458, 8467>>, <<8469, 8469>>, <<8473,
     8477>>, <<8484, 8484>>, <<8486, 8486>>, <<8488, 8488>>, <<8490, 8493>>,
     <<8495, 8500>>, <<8505, 8505>>, <<8508, 8511>>, <<8517, 8521>>, <<8526,
     8526>>, <<8544, 8575>>, <<8579, 8580>>, <<9398, 9449>>, <<11264,
     11387>>, <<11390, 11492>>, <<11499, 11502>>, <<11506, 11507>>, <<11520,
     11557>>, <<11559, 11559>>, <<11565, 11565>>, <<42560, 42605>>, <<42624,
     42651>>, <<42786, 42863>>, <<42865, 42887>>, <<42891, 42894>>, <<42896,
     42954>>, <<42960, 42961>>, <<42963, 42963>>, <<42965, 42969>>, <<42997,
     42998>>, <<43002, 43002>>, <<43824, 43866>>, <<43872, 43880>>, <<43888,
     43967>>, <<64256, 64262>>, <<64275, 64279>>, <<65313, 65338>>, <<65345,
     65370>>, <<66560, 66639>>, <<66736, 66771>>, <<66776, 66811>>, <<66928,
     66938>>, <<66940, 66954>>, <<66956, 66962>>, <<66964, 66965>>, <<66967,
     66977>>, <<66979, 66993>>, <<66995, 67001>>, <<67003, 67004>>, <<68736,
     68786>>, <<68800, 68850>>, <<71840, 71903>>, <<93760, 93823>>, <<119808,
     119892>>, <<119894, 119964>>, <<119966, 119967>>, <<119970, 119970>>,
     <<119973, 119974>>, <<119977, 119980>>, <<119982, 119993>>, <<119995,
     119995>>, <<119997, 120003>>, <<120005, 120069>>, <<120071, 120074>>,
     <<120077, 120084>>, <<120086, 120092>>, <<120094, 120121>>, <<120123,
     120126>>, <<120128, 120132>>, <<120134, 120134>>, <<120138, 120144>>,
     <<120146, 120485>>, <<120488, 120512>>, <<120514, 120538>>, <<120540,
     120570>>, <<120572, 120596>>, <<120598, 120628>>, <<120630, 120654>>,
     <<120656, 120686>>, <<120688, 120712>>, <<120714, 120744>>, <<120746,
     120770>>, <<120772, 120779>>, <<122624, 122633>>, <<122635, 122654>>,
     <<125184, 125251>>, <<127280, 127305>>, <<127312, 127337>>, <<127344,
     127369>>}

CaseIgnorableRanges ==
    {<<39, 39>>, <<46, 46>>, <<58, 58>>, <<94, 94>>, <<96, 96>>, <<168,
     168>>, <<173, 173>>, <<175, 175>>, <<180, 180>>, <<183, 184>>, <<688,
     879>>, <<884, 885>>, <<890, 890>>, <<900, 901>>, <<903, 903>>, <<1155,
     1161>>, <<1369, 1369>>, <<1375, 1375>>, <<1425, 1469>>, <<1471, 1471>>,
     <<1473, 1474>>, <<1476, 1477>>, <<1479, 1479>>, <<1524, 1524>>, <<1536,
     1541>>, <<1552, 1562>>, <<1564, 1564>>, <<1600, 1600>>, <<1611, 1631>>,
     <<1648, 1648>>, <<1750, 1757>>, <<1759, 1768>>, <<1770, 1773>>, <<1807,
     1807>>, <<1809, 1809>>, <<1840, 1866>>, <<1958, 1968>>, <<2027, 2037>>,
     <<2042, 2042>>, <<2045, 2045>>, <<2070, 2093>>, <<2137, 2139>>, <<2184,
     2184>>, <<2192, 2193>>, <<2200, 2207>>, <<2249, 2306>>, <<2362, 2362>>,
     <<2364, 2364>>, <<2369, 2376>>, <<2381, 2381>>, <<2385, 2391>>, <<2402,
     2403>>, <<2417, 2417>>, <<2433, 2433>>, <<2492, 2492>>, <<2497, 2500>>,
     <<2509, 2509>>, <<2530, 2531>>, <<2558, 2558>>, <<2561, 2562>>, <<2620,
     2620>>, <<2625, 2626>>, <<2631, 2632>>, <<2635, 2637>>, <<2641, 2641>>,
     <<2672, 2673>>, <<2677, 2677>>, <<2689, 2690>>, <<2748, 2748>>, <<2753,
     2757>>, <<2759, 2760>>, <<2765, 2765>>, <<2786, 2787>>, <<2810, 2815>>,
     <<2817, 2817>>, <<2876, 2876>>, <<2879, 2879>>, <<2881, 2884>>, <<2893,
     2893>>, <<2901, 2902>>, <<2914, 2915>>, <<2946, 2946>>, <<3008, 3008>>,
     <<3021, 3021>>, <<3072, 3072>>, <<3076, 3076>>, <<3132, 3132>>, <<3134,
     3136>>, <<3142, 3144>>, <<3146, 3149>>, <<3157, 3158>>, <<3170, 3171>>,
     <<3201, 3201>>, <<3260, 3260>>, <<3263, 3263>>, <<3270, 3270>>, <<3276,
     3277>>, <<3298, 3299>>, <<3328, 3329>>, <<3387, 3388>>, <<3393, 3396>>,
     <<3405, 3405>>, <<3426, 3427>>, <<3457, 3457>>, <<3530, 3530>>, <<3538,
     3540>>, <<3542, 3542>>, <<3633, 3633>>, <<3636, 3642>>, <<3654, 3662>>,
     <<3761, 3761>>, <<3764, 3772>>, <<3782, 3782>>, <<3784, 3789>>, <<3864,
     3865>>, <<3893, 3893>>, <<3895, 3895>>, <<3897, 3897>>, <<3953, 3966>>,
     <<3968, 3972>>, <<3974, 3975>>, <<3981, 3991>>, <<3993, 4028>>, <<4038,
     4038>>, <<4141, 4144>>, <<4146, 4151>>, <<4153, 4154>>, <<4157, 4158>>,
     <<4184, 4185>>, <<4190, 4192>>, <<4209, 4212>>, <<4226, 4226>>, <<4229,
     4230>>, <<4237, 4237>>, <<4253, 4253>>, <<4348, 4348>>, <<4957, 4959>>,
     <<5906, 5908>>, <<5938, 5939>>, <<5970, 5971>>, <<6002, 6003>>, <<6068,
     6069>>, <<6071, 6077>>, <<6086, 6086>>, <<6089, 6099>>, <<6103, 6103>>,
     <<6109, 6109>>, <<6155, 6159>>, <<6211, 6211>>, <<6277, 6278>>, <<6313,
     6313>>, <<6432, 6434>>, <<6439, 6440>>, <<6450, 6450>>, <<6457, 6459>>,
     <<6679, 6680>>, <<6683, 6683>>, <<6742, 6742>>, <<6744, 6750>>, <<6752,
     6752>>, <<6754, 6754>>, <<6757, 6764>>, <<6771, 6780>>, <<6783, 6783>>,
     <<6823, 6823>>, <<6832, 6862>>, <<6912, 6915>>, <<6964, 6964>>, <<6966,
     6970>>, <<6972, 6972>>, <<6978, 6978>>, <<7019, 7027>>, <<7040, 7041>>,
     <<7074, 7077>>, <<7080, 7081>>, <<7083, 7085>>, <<7142, 7142>>, <<7144,
     7145>>, <<7149, 7149>>, <<7151, 7153>>, <<7212, 7219>>, <<7222, 7223>>,
     <<7288, 7293>>, <<7376, 7378>>, <<7380, 7392>>, <<7394, 7400>>, <<7405,
     7405>>, <<7412, 7412>>, <<7416, 7417>>, <<7468, 7530>>, <<7544, 7544>>,
     <<7579, 7679>>, <<8125, 8125>>, <<8127, 8129>>, <<8141, 8143>>, <<8157,
     8159>>, <<8173, 8175>>, <<8189, 8190>>, <<8203, 8207>>, <<8216, 8217>>,
     <<8228, 8228>>, <<8231, 8231>>, <<8234, 8238>>, <<8288, 8292>>, <<8294,
     8303>>, <<8305, 8305>>, <<8319, 8319>>, <<8336, 8348>>, <<8400, 8432>>,
     <<11388, 11389>>, <<11503, 11505>>, <<11631, 11631>>, <<11647, 11647>>,
     <<11744, 11775>>, <<11823, 11823>>, <<12293, 12293>>, <<12330, 12333>>,
     <<12337, 12341>>, <<12347, 12347>>, <<12441, 12446>>, <<12540, 12542>>,
     <<40981, 40981>>, <<42232, 42237>>, <<42508, 42508>>, <<42607, 42610>>,
     <<42612, 42621>>, <<42623, 42623>>, <<42652, 42655>>, <<42736, 42737>>,
     <<42752, 42785>>, <<42864, 42864>>, <<42888, 42890>>, <<42994, 42996>>,
     <<43000, 43001>>, <<43010, 43010>>, <<43014, 43014>>, <<43019, 43019>>,
     <<43045, 43046>>, <<43052, 43052>>, <<43204, 43205>>, <<43232, 43249>>,
     <<43263, 43263>>, <<43302, 43309>>, <<43335, 43345>>, <<43392, 43394>>,
     <<43443, 43443>>, <<43446, 43449>>, <<43452, 43453>>, <<43471, 43471>>,
     <<43493, 43494>>, <<43561, 43566>>, <<43569, 43570>>, <<43573, 43574>>,
     <<43587, 43587>>, <<43596, 43596>>, <<43632, 43632>>, <<43644, 43644>>,
     <<43696, 43696>>, <<43698, 43700>>, <<43703, 43704>>, <<43710, 43711>>,
     <<43713, 43713>>, <<43741, 43741>>, <<43756, 43757>>, <<43763, 43764>>,
     <<43766, 43766>>, <<43867, 43871>>, <<43881, 43883>>, <<44005, 44005>>,
     <<44008, 44008>>, <<44013, 44013>>, <<64286, 64286>>, <<64434, 64450>>,
     <<65024, 65039>>, <<65043, 65043>>, <<65056, 65071>>, <<65106, 65106>>,
     <<65109, 65109>>, <<65279, 65279>>, <<65287, 65287>>, <<65294, 65294>>,
     <<65306, 65306>>, <<65342, 65342>>, <<65344, 65344>>, <<65392, 65392>>,
     <<65438, 65439>>, <<65507, 65507>>, <<65529, 65531>>, <<66045, 66045>>,
     <<66272, 66272>>, <<66422, 66426>>, <<67456, 67461>>, <<67463, 67504>>,
     <<67506, 67514>>, <<68097, 68099>>, <<68101, 68102>>, <<68108, 68111>>,
     <<68152, 68154>>, <<68159, 68159>>, <<68325, 68326>>, <<68900, 68903>>,
     <<69291, 69292>>, <<69446, 69456>>, <<69506, 69509>>, <<69633, 69633>>,
     <<69688, 69702>>, <<69744, 69744>>, <<69747, 69748>>, <<69759, 69761>>,
     <<69811, 69814>>, <<69817, 69818>>, <<69821, 69821>>, <<69826, 69826>>,
     <<69837, 69837>>, <<69888, 69890>>, <<69927, 69931>>, <<69933, 69940>>,
     <<70003, 70003>>, <<70016, 70017>>, <<70070, 70078>>, <<70089, 70092>>,
     <<70095, 70095>>, <<70191, 70193>>, <<70196, 70196>>, <<70198, 70199>>,
     <<70206, 70206>>, <<70367, 70367>>, <<70371, 70378>>, <<70400, 70401>>,
     <<70459, 70460>>, <<70464, 70464>>, <<70502, 70508>>, <<70512, 70516>>,
     <<70712, 70719>>, <<70722, 70724>>, <<70726, 70726>>, <<70750, 70750>>,
     <<70835, 70840>>, <<70842, 70842>>, <<70847, 70848>>, <<70850, 70851>>,
     <<71090, 71093>>, <<71100, 71101>>, <<71103, 71104>>, <<71132, 71133>>,
     <<71219, 71226>>, <<71229, 71229>>, <<71231, 71232>>, <<71339, 71339>>,
     <<71341, 71341>>, <<71344, 71349>>, <<71351, 71351>>, <<71453, 71455>>,
     <<71458, 71461>>, <<71463, 71467>>, <<71727, 71735>>, <<71737, 71738>>,
     <<71995, 71996>>, <<71998, 71998>>, <<72003, 72003>>, <<72148, 72151>>,
     <<72154, 72155>>, <<72160, 72160>>, <<72193, 72202>>, <<72243, 72248>>,
     <<72251, 72254>>, <<72263, 72263>>, <<72273, 72278>>, <<72281, 72283>>,
     <<72330, 72342>>, <<72344, 72345>>, <<72752, 72758>>, <<72760, 72765>>,
     <<72767, 72767>>, <<72850, 72871>>, <<72874, 72880>>, <<72882, 72883>>,
     <<72885, 72886>>, <<73009, 73014>>, <<73018, 73018>>, <<73020, 73021>>,
     <<73023, 73029>>, <<73031, 73031>>, <<73104, 73105>>, <<73109, 73109>>,
     <<73111, 73111>>, <<73459, 73460>>, <<78896, 78904>>, <<92912, 92916>>,
     <<92976, 92982>>, <<92992, 92995>>, <<94031, 94031>>, <<94095, 94111>>,
     <<94176, 94177>>, <<94179, 94180>>, <<110576, 110579>>, <<110581,
     110587>>, <<110589, 110590>>, <<113821, 113822>>, <<113824, 113827>>,
     <<118528, 118573>>, <<118576, 118598>>, <<119143, 119145>>, <<119155,
     119170>>, <<119173, 119179>>, <<119210, 119213>>, <<119362, 119364>>,
     <<121344, 121398>>, <<121403, 121452>>, <<121461, 121461>>, <<121476,
     121476>>, <<121499, 121503>>, <<121505, 121519>>, <<122880, 122886>>,
     <<122888, 122904>>, <<122907, 122913>>, <<122915, 122916>>, <<122918,
     122922>>, <<123184, 123197>>, <<123566, 123566>>, <<123628, 123631>>,
     <<125136, 125142>>, <<125252, 125259>>, <<127995, 127999>>, <<917505,
     917505>>, <<917536, 917631>>, <<917760, 917999>>}

InRun(c, r) == c \in r[1]..r[2] /\ (c - r[1]) % r[3] = 0

InRanges(c, ranges) == \E r \in ranges : c \in r[1]..r[2]

\* the mapping of one character under a table of runs and special cases
MapChar(c, runs, special) ==
    IF c \in 65..90 THEN <<c + 32>>
    ELSE IF c < 128 THEN <<c>>
    ELSE IF \E r \in runs : InRun(c, r)
    THEN <<c + (CHOOSE r \in runs : InRun(c, r))[4]>>
    ELSE IF \E p \in special : p[1] = c
    THEN (CHOOSE p \in special : p[1] = c)[2]
    ELSE <<c>>

FoldChar(c) == MapChar(c, FoldRuns, FoldSpecial)

RECURSIVE casefold(_)
casefold(s) ==
    IF s = <<>> THEN <<>> ELSE FoldChar(Head(s)) \o casefold(Tail(s))

Cased(c) == InRanges(c, CasedRanges)

CaseIgnorable(c) == InRanges(c, CaseIgnorableRanges)

\* the capital sigma at s[k] ends a word: the nearest character before it that
\* is not case-ignorable is cased, and the nearest one after it is not
FinalSigma(s, k) ==
    LET before == {j \in 1..(k - 1) : ~CaseIgnorable(s[j])}
        after == {j \in (k + 1)..Len(s) : ~CaseIgnorable(s[j])}
    IN  /\ before # {}
        /\ Cased(s[CHOOSE j \in before : \A n \in before : n <= j])
        /\ \/ after = {}
           \/ ~Cased(s[CHOOSE j \in after : \A n \in after : j <= n])

LowerChar(s, k) ==
    IF s[k] = 931 THEN <<IF FinalSigma(s, k) THEN 962 ELSE 963>>
    ELSE MapChar(s[k], LowerRuns, LowerSpecial)

RECURSIVE LowerFrom(_, _)
LowerFrom(s, k) ==
    IF k > Len(s) THEN <<>> ELSE LowerChar(s, k) \o LowerFrom(s, k + 1)

lower(s) == LowerFrom(s, 1)

RECURSIVE lstrip(_)
lstrip(s) ==
    IF s = <<>> THEN s
    ELSE IF Head(s) \in Whitespace THEN lstrip(Tail(s)) ELSE s

RECURSIVE rstrip(_)
rstrip(s) ==
    IF s = <<>> THEN s
    ELSE IF s[Len(s)] \in Whitespace THEN rstrip(SubSeq(s, 1, Len(s) - 1)) ELSE s

strip(s) == rstrip(lstrip(s))

\* sub in s
contains(sub, s) ==
    \E k \in 1..(Len(s) - Len(sub) + 1) : SubSeq(s, k, k + Len(sub) - 1) = sub

\* 'default address'
DefaultAddress == <<100, 101, 102, 97, 117, 108, 116, 32, 97, 100, 100, 114, 101, 115, 115>>

----------------------------------------------------------------------------
\* JSON values as json.load returns them: a key that is absent, null, a
\* string, or a number, which is held as the text str() gives for it.

Absent == [t |-> "absent", s |-> <<>>]
Null == [t |-> "null", s |-> <<>>]
Num(x) == [t |-> "num", s |-> x]
Str(x) == [t |-> "str", s |-> x]

\* d.get(key): None for an absent key
Get(v) == IF v.t = "absent" THEN Null ELSE v

\* str() of the numbers that are zero: '0', '0.0', '-0.0'
Zeros == {<<48>>, <<48, 46, 48>>, <<45, 48, 46, 48>>}

\* truth value of a field: None, '' and zero are false
Truthy(v) == \/ v.t = "str" /\ v.s # <<>>
             \/ v.t = "num" /\ v.s \notin Zeros

\* a or b
OrElse(a, b) == IF Truthy(a) THEN a ELSE b

\* str(d.get(key, ''))
PyStr(v) ==
    CASE v.t = "absent" -> <<>>
      [] v.t = "null" -> <<78, 111, 110, 101>>
      [] OTHER -> v.s

\* An address mapping: absent, null, or a dict of three keys.
NoAddress == [t |-> "absent", country |-> Absent, address_line_1 |-> Absent,
              premises |-> Absent]
NullAddress == [t |-> "null", country |-> Absent, address_line_1 |-> Absent,
                premises |-> Absent]
Address(c, l, p) == [t |-> "dict", country |-> c, address_line_1 |-> l,
                     premises |-> p]

Director(cor, rc, a) ==
    [country_of_residence |-> cor, residence_country |-> rc, address |-> a]

CompanyData(conf, acc, reg) ==
    [ConfStmtNextDueDate |-> conf, AccountsNextDueDate |-> acc,
     RegAddressLine1 |-> reg]

Company(dirs, data) == [directors |-> dirs, company_data |-> data]

----------------------------------------------------------------------------
\* load_UK_variants: the non-blank lines, stripped, as a case-folded set.

load_UK_variants(lines) ==
    LET variations_on_uk ==
            {strip(lines[k]) : k \in {n \in 1..Len(lines) : strip(lines[n]) # <<>>}}
    IN  {casefold(variant) : variant \in variations_on_uk}

\* country.strip() of a true value that is no string raises AttributeError
StripRaises(v) == Truthy(v) /\ v.t # "str"

\* country and country.strip().casefold() in uk_variants
InVariants(v, uk) == Truthy(v) /\ casefold(strip(v.s)) \in uk

\* officer.get('country_of_residence') or officer.get('residence_country')
ResidenceOf(officer) ==
    OrElse(Get(officer.country_of_residence), Get(officer.residence_country))

\* officer.get('address', {}) has no .get when the key holds null
AddressRaises(officer) == officer.address.t = "null"

\* officer.get('address', {}).get('country')
AddressCountryOf(officer) == Get(officer.address.country)

----------------------------------------------------------------------------
\* extract_director_countries: the loop body for one officer, then the loops.

ExtractOfficer(officer, acc) ==
    IF acc.raised THEN acc
    ELSE IF AddressRaises(officer) THEN [acc EXCEPT !.raised = TRUE]
    ELSE LET country == ResidenceOf(officer)
             address_country == AddressCountryOf(officer)
         IN  IF StripRaises(country) \/ StripRaises(address_country)
             THEN [acc EXCEPT !.raised = TRUE]
             ELSE [acc EXCEPT !.countries =
                      @ \cup (IF Truthy(country) THEN {strip(country.s)} ELSE {})
                        \cup (IF Truthy(address_country)
                              THEN {strip(address_country.s)} ELSE {})]

RECURSIVE ExtractOfficers(_, _, _)
ExtractOfficers(dirs, j, acc) ==
    IF j > Len(dirs) THEN acc
    ELSE ExtractOfficers(dirs, j + 1, ExtractOfficer(dirs[j], acc))

RECURSIVE ExtractCompanies(_, _, _)
ExtractCompanies(companies, k, acc) ==
    IF k > Len(companies) THEN acc
    ELSE ExtractCompanies(companies, k + 1,
                          ExtractOfficers(companies[k].directors, 1, acc))

extract_director_countries(companies) ==
    ExtractCompanies(companies, 1, [raised |-> FALSE, countries |-> {}])

----------------------------------------------------------------------------
\* count_companies_by_uk_director_status: the body of the loop over the
\* officers of one company.  acc holds has_uk and the two director tallies.

\* Mutant: a UK residence alone marks the company, whatever the address.
CountOfficerResidenceOnly(officer, acc, uk) ==
    IF acc.raised THEN acc
    ELSE IF AddressRaises(officer) THEN [acc EXCEPT !.raised = TRUE]
    ELSE LET country == ResidenceOf(officer)
             a1 == [acc EXCEPT !.total_directors = @ + 1]
         IN  IF InVariants(country, uk) THEN [a1 EXCEPT !.has_uk = TRUE] ELSE a1

\* Mutant: the scan of the officers stops at the first UK-qualifying one.
CountOfficerEarlyExit(officer, acc, uk) ==
    IF acc.raised \/ acc.has_uk THEN acc
    ELSE IF AddressRaises(officer) THEN [acc EXCEPT !.raised = TRUE]
    ELSE LET country == ResidenceOf(officer)
             address_country == AddressCountryOf(officer)
             a1 == [acc EXCEPT !.total_directors = @ + 1]
         IN  IF InVariants(country, uk)
             THEN IF InVariants(address_country, uk)
                  THEN [a1 EXCEPT !.has_uk = TRUE]
                  ELSE [a1 EXCEPT !.questionable_residence = @ + 1]
             ELSE a1

CountOfficer(officer, acc, uk) ==
    IF acc.raised THEN acc
    ELSE IF AddressRaises(officer) THEN [acc EXCEPT !.raised = TRUE]
    ELSE LET country == ResidenceOf(officer)
             address_country == AddressCountryOf(officer)
             a1 == [acc EXCEPT !.total_directors = @ + 1]
         IN  IF StripRaises(country) THEN [acc EXCEPT !.raised = TRUE]
             ELSE IF InVariants(country, uk)
             THEN IF StripRaises(address_country) THEN [acc EXCEPT !.raised = TRUE]
                  ELSE IF InVariants(address_country, uk)
                  THEN [a1 EXCEPT !.has_uk = TRUE]
                  ELSE [a1 EXCEPT !.questionable_residence = @ + 1]
             ELSE a1

RECURSIVE CountOfficers(_, _, _, _)
CountOfficers(dirs, j, acc, uk) ==
    IF j > Len(dirs) THEN acc
    ELSE CountOfficers(dirs, j + 1, CountOfficer(dirs[j], acc, uk), uk)

\* Mutant: a company is counted in without_uk only if it has a director.
CountCompanyResultSkipEmpty(info, c, uk) ==
    LET acc == CountOfficers(info.directors, 1,
                   [raised |-> FALSE, has_uk |-> FALSE,
                    total_directors |-> c.total_directors,
                    questionable_residence |-> c.questionable_residence], uk)
    IN  [raised |-> acc.raised,
         has_uk |-> acc.has_uk,
         counts |-> [c EXCEPT
             !.total_directors = acc.total_directors,
             !.questionable_residence = acc.questionable_residence,
             !.with_uk = IF acc.has_uk THEN @ + 1 ELSE @,
             !.without_uk = IF acc.has_uk \/ info.directors = <<>> THEN @ ELSE @ + 1]]

\* One company of the loop at line 72: the officers, then with_uk / without_uk.
CountCompanyResult(info, c, uk) ==
    LET acc == CountOfficers(info.directors, 1,
                   [raised |-> FALSE, has_uk |-> FALSE,
                    total_directors |-> c.total_directors,
                    questionable_residence |-> c.questionable_residence], uk)
    IN  [raised |-> acc.raised,
         has_uk |-> acc.has_uk,
         counts |-> [c EXCEPT
             !.total_directors = acc.total_directors,
             !.questionable_residence = acc.questionable_residence,
             !.with_uk = IF acc.has_uk THEN @ + 1 ELSE @,
             !.without_uk = IF acc.has_uk THEN @ ELSE @ + 1]]

----------------------------------------------------------------------------
\* datetime.strptime(text, '%d/%m/%Y').date(): the directives' patterns
\* (3[0-1]|[1-2]\d|0[1-9]|[1-9]| [1-9] for %d, 1[0-2]|0[1-9]|[1-9] for %m,
\* \d\d\d\d for %Y), no text left over, and a date of the calendar.  \d is any
\* decimal digit of Unicode, [1-9] an ASCII one; int() reads both, and skips
\* the space of a space-padded day.

\* the digit zero of every script; the digits one to nine follow each

DecimalZeros ==
    {48, 1632, 1776, 1984, 2406, 2534, 2662, 2790, 2918, 3046, 3174, 3302,
     3430, 3558, 3664, 3792, 3872, 4160, 4240, 6112, 6160, 6470, 6608, 6784,
     6800, 6992, 7088, 7232, 7248, 42528, 43216, 43264, 43472, 43504, 43600,
     44016, 65296, 66720, 68912, 69734, 69872, 69942, 70096, 70384, 70736,
     70864, 71248, 71360, 71472, 71904, 72016, 72784, 73040, 73120, 92768,
     92864, 93008, 120782, 120792, 120802, 120812, 120822, 123200, 123632,
     125264, 130032}

\* \d
IsDigit(c) == \E z \in DecimalZeros : c \in z..(z + 9)

DigitValue(c) == c - (CHOOSE z \in DecimalZeros : c \in z..(z + 9))

RECURSIVE DigitsValue(_)
DigitsValue(s) ==
    IF s = <<>> THEN 0
    ELSE 10 * DigitsValue(SubSeq(s, 1, Len(s) - 1)) + DigitValue(s[Len(s)])

\* int(s) of the text a directive matched
ToInt(s) == DigitsValue(strip(s))

\* how many characters %d takes before the '/', 0 if it does not match
DayLen(s) ==
    IF /\ Len(s) >= 3
       /\ \/ s[1] = 51 /\ s[2] \in 48..49
          \/ s[1] \in 49..50 /\ IsDigit(s[2])
          \/ s[1] = 48 /\ s[2] \in 49..57
          \/ s[1] = 32 /\ s[2] \in 49..57
       /\ s[3] = 47
    THEN 2
    ELSE IF Len(s) >= 2 /\ s[1] \in 49..57 /\ s[2] = 47
    THEN 1
    ELSE 0

\* how many characters %m takes before the '/', 0 if it does not match
MonthLen(s) ==
    IF /\ Len(s) >= 3
       /\ \/ s[1] = 49 /\ s[2] \in 48..50
          \/ s[1] = 48 /\ s[2] \in 49..57
       /\ s[3] = 47
    THEN 2
    ELSE IF Len(s) >= 2 /\ s[1] \in 49..57 /\ s[2] = 47
    THEN 1
    ELSE 0

IsLeap(y) == (y % 4 = 0 /\ y % 100 # 0) \/ y % 400 = 0

DaysInMonth(y, m) ==
    IF m = 2 THEN (IF IsLeap(y) THEN 29 ELSE 28)
    ELSE IF m \in {4, 6, 9, 11} THEN 30 ELSE 31

\* the result of a parse that raised ValueError
NoDate == <<>>

strptime(s) ==
    LET dl == DayLen(s)
        rest == SubSeq(s, dl + 2, Len(s))
        ml == MonthLen(rest)
        yy == SubSeq(rest, ml + 2, Len(rest))
        day == ToInt(SubSeq(s, 1, dl))
        month == ToInt(SubSeq(rest, 1, ml))
        year == ToInt(yy)
    IN  IF dl = 0 THEN NoDate
        ELSE IF ml = 0 THEN NoDate
        ELSE IF Len(yy) # 4 \/ \E k \in 1..Len(yy) : ~IsDigit(yy[k]) THEN NoDate
        ELSE IF year < 1 \/ day > DaysInMonth(year, month) THEN NoDate
        ELSE <<year, month, day>>

\* Mutant: a date due today counts as late.
DateBeforeOrOn(a, b) ==
    \/ a[1] < b[1]
    \/ a[1] = b[1] /\ a[2] < b[2]
    \/ a[1] = b[1] /\ a[2] = b[2] /\ a[3] <= b[3]

\* conf_date < today
DateBefore(a, b) ==
    \/ a[1] < b[1]
    \/ a[1] = b[1] /\ a[2] < b[2]
    \/ a[1] = b[1] /\ a[2] = b[2] /\ a[3] < b[3]

\* the try block of one due-date field: 1 when the counter is incremented
LateIncrement(field, now) ==
    LET due == strip(PyStr(field))
        date == strptime(due)
    IN  IF date # NoDate /\ DateBefore(date, now) THEN 1 ELSE 0

----------------------------------------------------------------------------
\* analyze_compliance: the body of the loop over the companies.

\* Mutant: the scan stops at the first UK-resident officer, whatever the
\* address.
RECURSIVE ClassifyStopAtResident(_, _, _)
ClassifyStopAtResident(dirs, j, uk) ==
    IF j > Len(dirs) THEN "without_uk"
    ELSE LET officer == dirs[j]
             country == ResidenceOf(officer)
             address_country == AddressCountryOf(officer)
         IN  IF AddressRaises(officer) \/ StripRaises(country) THEN "raised"
             ELSE IF InVariants(country, uk)
             THEN IF InVariants(address_country, uk) THEN "with_uk"
                  ELSE "without_uk"
             ELSE ClassifyStopAtResident(dirs, j + 1, uk)

\* the short-circuit classifier: "with_uk", "without_uk", or "raised"
RECURSIVE Classify(_, _, _)
Classify(dirs, j, uk) ==
    IF j > Len(dirs) THEN "without_uk"
    ELSE LET officer == dirs[j]
             country == ResidenceOf(officer)
             address_country == AddressCountryOf(officer)
         IN  IF AddressRaises(officer) \/ StripRaises(country) THEN "raised"
             ELSE IF InVariants(country, uk)
             THEN IF StripRaises(address_country) THEN "raised"
                  ELSE IF InVariants(address_country, uk) THEN "with_uk"
                  ELSE Classify(dirs, j + 1, uk)
             ELSE Classify(dirs, j + 1, uk)

\* 'default address' in text.lower()
IsDefaultAddress(text) == contains(DefaultAddress, lower(text))

\* (officer.get('address', {}) or {}).values(), in the order of the keys
AddressValues(officer) ==
    LET a == officer.address
    IN  IF a.t # "dict" THEN <<>>
        ELSE SelectSeq(<<a.country, a.address_line_1, a.premises>>,
                       LAMBDA v : v.t # "absent")

\* the loop over the values of one address: 1 at the first match (break)
RECURSIVE ValuesFlag(_, _)
ValuesFlag(vals, k) ==
    IF k > Len(vals) THEN 0
    ELSE IF vals[k].t = "str" /\ IsDefaultAddress(vals[k].s) THEN 1
    ELSE ValuesFlag(vals, k + 1)

\* the loop over the officers: the break above leaves the inner loop only
RECURSIVE DirectorFlags(_, _)
DirectorFlags(dirs, j) ==
    IF j > Len(dirs) THEN 0
    ELSE ValuesFlag(AddressValues(dirs[j]), 1) + DirectorFlags(dirs, j + 1)

\* what one company adds to default_address
DefaultAddressIncrement(info) ==
    LET addr == strip(PyStr(info.company_data.RegAddressLine1))
    IN  IF IsDefaultAddress(addr) THEN 1 ELSE DirectorFlags(info.directors, 1)

AnalyzeCompanyResult(info, m, uk, now) ==
    LET group == Classify(info.directors, 1, uk)
        data == info.company_data
    IN  IF group = "raised" THEN [raised |-> TRUE, group |-> group, metrics |-> m]
        ELSE [raised |-> FALSE,
              group |-> group,
              metrics |-> [m EXCEPT
                  ![group].late_confstmt =
                      @ + LateIncrement(data.ConfStmtNextDueDate, now),
                  ![group].late_accounts =
                      @ + LateIncrement(data.AccountsNextDueDate, now),
                  ![group].default_address = @ + DefaultAddressIncrement(info)]]

----------------------------------------------------------------------------
\* display_compliance_indicators: the print calls in order.  The line of a
\* metric evaluates math.sqrt(p * (1 - p) / n) first, which raises ValueError
\* for p > 1.

Groups == <<"with_uk", "without_uk">>
Keys == <<"late_confstmt", "late_accounts", "default_address">>

GroupLines(g) ==
    <<[group |-> g, key |-> "header"]>> \o [k \in 1..Len(Keys) |-> [group |-> g, key |-> Keys[k]]]

DisplayLines ==
    <<[group |-> "all", key |-> "header"]>> \o GroupLines(Groups[1]) \o GroupLines(Groups[2])

\* math.sqrt raises for a negative argument: count / n > 1
SqrtRaises(count, n) == n # 0 /\ count * (n - count) < 0

LineRaises(line, c, m) ==
    /\ line.key # "header"
    /\ SqrtRaises(m[line.group][line.key], c[line.group])

\* Mutant: the label of a line is printed before its margin is computed.
RECURSIVE DisplayLabelFirst(_, _, _, _)
DisplayLabelFirst(lines, k, c, m) ==
    IF k > Len(lines) THEN [raised |-> FALSE, printed |-> lines]
    ELSE IF LineRaises(lines[k], c, m)
    THEN [raised |-> TRUE, printed |-> SubSeq(lines, 1, k)]
    ELSE DisplayLabelFirst(lines, k + 1, c, m)

\* the lines printed before the first that raises, and whether one raised
RECURSIVE Display(_, _, _, _)
Display(lines, k, c, m) ==
    IF k > Len(lines) THEN [raised |-> FALSE, printed |-> lines]
    ELSE IF LineRaises(lines[k], c, m)
    THEN [raised |-> TRUE, printed |-> SubSeq(lines, 1, k - 1)]
    ELSE Display(lines, k + 1, c, m)

----------------------------------------------------------------------------
\* calculate_and_print_default_address_ratio.  A proportion is kept as the
\* pair <<numerator, denominator>>; p_foreign / p_uk raises ZeroDivisionError
\* for p_uk = 0.0.

\* Mutant: an empty group is given the rate 1.
ProportionOneIfEmpty(count, n) == IF n > 0 THEN <<count, n>> ELSE <<1, 1>>

\* p = 0.0; if n > 0: p = count / n
Proportion(count, n) == IF n > 0 THEN <<count, n>> ELSE <<0, 1>>

IsZero(p) == p[1] = 0

\* Mutant: the division is guarded and a zero rate prints a ratio of 0.
RatioGuarded(c, m) ==
    LET p_uk == Proportion(m.with_uk.default_address, c.with_uk)
        p_foreign == Proportion(m.without_uk.default_address, c.without_uk)
    IN  [raised |-> FALSE,
         ratio |-> IF IsZero(p_uk) THEN <<0, 1>>
                   ELSE <<p_foreign[1] * p_uk[2], p_foreign[2] * p_uk[1]>>]

Ratio(c, m) ==
    LET p_uk == Proportion(m.with_uk.default_address, c.with_uk)
        p_foreign == Proportion(m.without_uk.default_address, c.without_uk)
    IN  IF IsZero(p_uk) THEN [raised |-> TRUE, ratio |-> <<0, 1>>]
        ELSE [raised |-> FALSE,
              ratio |-> <<p_foreign[1] * p_uk[2], p_foreign[2] * p_uk[1]>>]

----------------------------------------------------------------------------
\* The samples the script is run on: at most MaxCompanies company records
\* holding at most MaxDirectors director records between them.

\* 'UK'
sUK == <<85, 75>>
\* '\xa0Uk\r'
sUkPadded == <<160, 85, 107, 13>>
\* 'gb'
sGb == <<103, 98>>
\* 'FR'
sFR == <<70, 82>>
sEmpty == <<>>
\* '1 High St'
sHighSt == <<49, 32, 72, 105, 103, 104, 32, 83, 116>>
\* '3 Default address Rd'
sDefaultRoad == <<51, 32, 68, 101, 102, 97, 117, 108, 116, 32, 97, 100, 100, 114, 101, 115, 115, 32, 82, 100>>
\* ' DEFAULT ADDRESS, CF'
sDefaultCardiff == <<32, 68, 69, 70, 65, 85, 76, 84, 32, 65, 68, 68, 82, 69, 83, 83, 44, 32, 67, 70>>

\* UK_VARIANT_FILE: lines with their line ends, one of them blank
\* 'uK\n', '\x0c\n', ' GB\xa0\n'
VariantLines == << <<117, 75, 10>>, <<12, 10>>, <<32, 71, 66, 160, 10>> >>
\* 'Uk'
VariantLinesShort == << <<85, 107>> >>

\* resident in the UK with an address in the UK
dUK == Director(Str(sUkPadded), Absent, Address(Str(sGb), Str(sHighSt), Absent))
\* the same, at a default address
dUKDefault == Director(Str(sUK), Str(sFR), Address(Str(sUK), Str(sDefaultRoad), Num(<<55>>)))
\* resident in the UK (second key), address abroad
dQuestionable == Director(Str(sEmpty), Str(sUK), Address(Str(sFR), Str(sHighSt), Absent))
\* no residence, address in the UK, at a default address
dAddressOnly == Director(Null, Absent, Address(Str(sUK), Num(<<48>>), Str(sDefaultRoad)))
\* resident in the UK, no address key
dNoAddress == Director(Str(sUK), Absent, NoAddress)
\* resident in the UK, address without a country
dNoCountry == Director(Str(sUK), Absent, Address(Str(sEmpty), Absent, Absent))
\* the address key holds null
dNullAddress == Director(Str(sFR), Absent, NullAddress)
\* resident in 'FR\ud800', address in 'A\udc80': two lone surrogates
dSurrogate == Director(Str(<<70, 82, 55296>>), Absent,
                       Address(Str(<<65, 56448>>), Absent, Absent))
\* resident abroad at a default address
dForeignDefault == Director(Absent, Str(sFR), Address(Null, Str(sDefaultRoad), Absent))

dataNone == CompanyData(Absent, Absent, Absent)
dataDefault ==
    CompanyData(Str(<<48, 49, 47, 48, 49, 47, 50, 48, 48, 48>>),
                Str(<<78, 47, 65>>), Str(sDefaultCardiff))
dataClean ==
    CompanyData(Str(<<48, 49, 47, 48, 49, 47, 50, 48, 57, 57>>),
                Str(<<49, 47, 49, 47, 50, 48, 48, 48>>), Str(sHighSt))

\* the samples of n companies with at most budget directors between them
RECURSIVE Samples(_, _, _, _)
Samples(n, budget, dirPool, dataPool) ==
    IF n = 0 THEN {<<>>}
    ELSE UNION {
            {<<Company(dirs, data)>> \o rest :
                dirs \in [1..k -> dirPool], data \in dataPool,
                rest \in Samples(n - 1, budget - k, dirPool, dataPool)}
            : k \in 0..budget}

SamplesUpTo(dirPool, dataPool) ==
    UNION {Samples(n, MaxDirectors, dirPool, dataPool) : n \in 0..MaxCompanies}

ZeroCounts ==
    [with_uk |-> 0, without_uk |-> 0, questionable_residence |-> 0,
     total_directors |-> 0]

ZeroMetrics ==
    [g \in {"with_uk", "without_uk"} |->
        [late_confstmt |-> 0, late_accounts |-> 0, default_address |-> 0]]

Today1 == <<2024, 6, 15>>

\* a run of main, or of one pass on its own, on a sample
InitRun(files, samples, days, entries) ==
    /\ variant_file \in files
    /\ sampled \in samples
    /\ today \in days
    /\ entry \in entries
    /\ pc = "start"
    /\ i = 0
    /\ uk_variants = {}
    /\ countries = {}
    /\ listed = {}
    /\ counts = ZeroCounts
    /\ metrics = ZeroMetrics
    /\ cls = <<>>
    /\ grp = <<>>
    /\ output = <<>>
    /\ err = "none"

\* a call of calculate_and_print_default_address_ratio on given tallies
InitRatio ==
    /\ variant_file = VariantLines
    /\ sampled = <<>>
    /\ today = Today1
    /\ entry = "ratio"
    /\ pc = "start"
    /\ i = 0
    /\ uk_variants = {}
    /\ countries = {}
    /\ listed = {}
    /\ \E n1 \in 0..MaxTally, n2 \in 0..MaxTally :
          counts = [ZeroCounts EXCEPT !.with_uk = n1, !.without_uk = n2]
                   @@ ("total_companies" :> n1 + n2)
    /\ \E k1 \in 0..MaxTally, k2 \in 0..MaxTally :
          metrics = [ZeroMetrics EXCEPT !.with_uk.default_address = k1,
                                        !.without_uk.default_address = k2]
    /\ cls = <<>>
    /\ grp = <<>>
    /\ output = <<>>
    /\ err = "none"

Init ==
    \/ InitRun({VariantLines},
               SamplesUpTo({dUK, dUKDefault, dForeignDefault},
                           {dataNone, dataDefault, dataClean}),
               {Today1}, {"main"})
    \/ InitRatio

----------------------------------------------------------------------------
\* The steps of a run.

Line(section, g, k) == [section |-> section, group |-> g, key |-> k]

Raise(exception) ==
    /\ pc' = "failed"
    /\ err' = exception

\* main, lines 263-267: the two loaders and the first print
Load ==
    /\ pc = "start"
    /\ uk_variants' = load_UK_variants(variant_file)
    /\ IF entry = "main"
       THEN /\ output' = Append(output, Line("loaded", "all", "header"))
            /\ pc' = "inspect"
       ELSE /\ output' = output
            /\ pc' = entry
    /\ UNCHANGED <<variant_file, sampled, today, entry, i, countries, counts,
                   metrics, cls, grp, listed, err>>

\* a < b, as sorted() orders two strings: by the code points, in order
StrLess(a, b) ==
    \E k \in 1..(Len(a) + 1) :
        /\ k <= Len(b)
        /\ \A n \in 1..(k - 1) : a[n] = b[n]
        /\ k <= Len(a) => a[k] < b[k]

\* The error handler of sys.stdout, a UTF-8 stream: 'strict', or
\* 'surrogateescape' when the locale is C or POSIX.
StdoutErrors == {"strict", "surrogateescape"}

\* the stream can encode the character: UTF-8 has no encoding of a surrogate,
\* and surrogateescape writes U+DC80 to U+DCFF as the byte each stands for
Encodable(c, errors) ==
    \/ c \notin 55296..57343
    \/ errors = "surrogateescape" /\ c \in 56448..56575

\* print(f"{c}") raises UnicodeEncodeError and writes nothing
PrintRaises(c, errors) == \E k \in 1..Len(c) : ~Encodable(c[k], errors)

\* inspect_countries: the header, the countries that are no UK variant in
\* sorted order, the note; the pass ends at the first country that the stream
\* cannot encode
InspectCountries ==
    /\ pc = "inspect"
    /\ \E errors \in StdoutErrors :
        LET r == extract_director_countries(sampled)
            non_uk == {c \in r.countries : casefold(strip(c)) \notin uk_variants}
            bad == {c \in non_uk : PrintRaises(c, errors)}
        IN  IF r.raised
            THEN /\ Raise("AttributeError")
                 /\ UNCHANGED <<countries, listed, output>>
            ELSE IF bad # {}
            THEN /\ countries' = r.countries
                 /\ listed' = {c \in non_uk : \A b \in bad : StrLess(c, b)}
                 /\ output' = Append(output, Line("countries", "all", "header"))
                 /\ Raise("UnicodeEncodeError")
            ELSE /\ countries' = r.countries
                 /\ listed' = non_uk
                 /\ output' = output \o <<Line("countries", "all", "header"),
                                          Line("countries", "all", "note")>>
                 /\ pc' = "count"
                 /\ err' = err
    /\ UNCHANGED <<variant_file, sampled, today, entry, i, uk_variants, counts,
                   metrics, cls, grp>>

\* count_companies_by_uk_director_status: one company of the loop
CountCompany ==
    /\ pc = "count"
    /\ i < Len(sampled)
    /\ LET r == CountCompanyResult(sampled[i + 1], counts, uk_variants)
       IN  IF r.raised
           THEN /\ Raise("AttributeError")
                /\ UNCHANGED <<i, counts, cls>>
           ELSE /\ counts' = r.counts
                /\ cls' = Append(cls, r.has_uk)
                /\ i' = i + 1
                /\ UNCHANGED <<pc, err>>
    /\ UNCHANGED <<variant_file, sampled, today, entry, uk_variants, countries,
                   metrics, grp, listed, output>>

\* the end of the loop: total_companies, and the prints of
\* count_foreign_and_uk_directors when main called it
CountReturn ==
    /\ pc = "count"
    /\ i = Len(sampled)
    /\ counts' = counts @@ ("total_companies" :> counts.with_uk + counts.without_uk)
    /\ IF entry = "main"
       THEN /\ output' = output \o <<Line("totals", "all", "header"),
                                     Line("totals", "all", "foreign"),
                                     Line("totals", "all", "questionable")>>
            /\ pc' = "analyze"
       ELSE /\ output' = output
            /\ pc' = "done"
    /\ i' = 0
    /\ UNCHANGED <<variant_file, sampled, today, entry, uk_variants, countries,
                   metrics, cls, grp, listed, err>>

\* analyze_compliance: one company of the loop
AnalyzeCompany ==
    /\ pc = "analyze"
    /\ i < Len(sampled)
    /\ LET r == AnalyzeCompanyResult(sampled[i + 1], metrics, uk_variants, today)
       IN  IF r.raised
           THEN /\ Raise("AttributeError")
                /\ UNCHANGED <<i, metrics, grp>>
           ELSE /\ metrics' = r.metrics
                /\ grp' = Append(grp, r.group)
                /\ i' = i + 1
                /\ UNCHANGED <<pc, err>>
    /\ UNCHANGED <<variant_file, sampled, today, entry, uk_variants, countries,
                   counts, cls, listed, output>>

\* the end of the loop: return metrics
AnalyzeReturn ==
    /\ pc = "analyze"
    /\ i = Len(sampled)
    /\ pc' = IF entry = "main" THEN "display" ELSE "done"
    /\ UNCHANGED <<variant_file, sampled, today, entry, i, uk_variants, countries,
                   counts, metrics, cls, grp, listed, output, err>>

\* display_compliance_indicators
DisplayIndicators ==
    /\ pc = "display"
    /\ LET r == Display(DisplayLines, 1, counts, metrics)
       IN  /\ output' = output \o
                  [k \in 1..Len(r.printed) |->
                      Line("indicators", r.printed[k].group, r.printed[k].key)]
           /\ IF r.raised
              THEN Raise("ValueError")
              ELSE /\ pc' = "ratio"
                   /\ err' = err
    /\ UNCHANGED <<variant_file, sampled, today, entry, i, uk_variants, countries,
                   counts, metrics, cls, grp, listed>>

\* calculate_and_print_default_address_ratio
RatioEstimate ==
    /\ pc = "ratio"
    /\ LET r == Ratio(counts, metrics)
       IN  IF r.raised
           THEN /\ Raise("ZeroDivisionError")
                /\ output' = output
           ELSE /\ output' = Append(output, Line("ratio", "all", "header"))
                /\ pc' = "done"
                /\ err' = err
    /\ UNCHANGED <<variant_file, sampled, today, entry, i, uk_variants, countries,
                   counts, metrics, cls, grp, listed>>

Next ==
    \/ Load
    \/ InspectCountries
    \/ CountCompany
    \/ CountReturn
    \/ AnalyzeCompany
    \/ AnalyzeReturn
    \/ DisplayIndicators
    \/ RatioEstimate

Spec == Init /\ [][Next]_vars

\* Runs of main and of the count and compliance passes on their own, on
\* samples whose directors differ in their residence and address countries.
InitPasses ==
    InitRun({VariantLines, VariantLinesShort},
            SamplesUpTo({dUK, dQuestionable, dAddressOnly, dNoAddress,
                         dNoCountry, dNullAddress, dSurrogate},
                        {dataNone}),
            {Today1}, {"main", "count", "analyze"})

SpecPasses == InitPasses /\ [][Next]_vars

----------------------------------------------------------------------------
\* What the claims say of a director and of a company.

\* the residence country: the first of the two keys that holds a value
StatedResidence(d) ==
    IF d.country_of_residence.t = "str" /\ d.country_of_residence.s # <<>>
    THEN d.country_of_residence
    ELSE d.residence_country

\* the address country, Absent when there is no address mapping
StatedAddressCountry(d) ==
    IF d.address.t = "dict" THEN d.address.country ELSE Absent

\* a value that, trimmed and case-folded, is a member of the UK Variant Set
IsUKValue(v) ==
    /\ v.t = "str"
    /\ v.s # <<>>
    /\ casefold(strip(v.s)) \in uk_variants

UKQualifying(d) == IsUKValue(StatedResidence(d)) /\ IsUKValue(StatedAddressCountry(d))

QuestionableResidence(d) ==
    IsUKValue(StatedResidence(d)) /\ ~IsUKValue(StatedAddressCountry(d))

HasUKDirector(info) ==
    \E j \in 1..Len(info.directors) : UKQualifying(info.directors[j])

\* the directors of the first n companies, as <<company, position>>
DirectorsOfFirst(n) ==
    {kj \in (1..n) \X (1..MaxDirectors) : kj[2] <= Len(sampled[kj[1]].directors)}

CountPassReturned == "total_companies" \in DOMAIN counts /\ entry \in {"main", "count"}

----------------------------------------------------------------------------
\* C2: in count_companies_by_uk_director_status a company is counted in
\* with_uk exactly when one of its directors has both a residence country and
\* an address country in the UK Variant Set, and in without_uk otherwise.
C2_WithUKIffQualifyingDirector ==
    entry \in {"main", "count"} =>
        /\ \A k \in 1..Len(cls) : cls[k] = HasUKDirector(sampled[k])
        /\ counts.with_uk =
              Cardinality({k \in 1..Len(cls) : HasUKDirector(sampled[k])})
        /\ counts.without_uk =
              Cardinality({k \in 1..Len(cls) : ~HasUKDirector(sampled[k])})

\* the pass has returned; a company with no director and one whose only
\* UK-resident director has no UK address were counted in without_uk, and a
\* company with a qualifying director in with_uk
C2_Witness ==
    /\ CountPassReturned
    /\ counts.with_uk >= 1
    /\ \E k \in 1..Len(cls) :
          /\ ~cls[k]
          /\ \E j \in 1..Len(sampled[k].directors) :
                QuestionableResidence(sampled[k].directors[j])

\* C3: every company the count pass has processed is in exactly one of
\* with_uk and without_uk: the two sum to the number processed, and on
\* return total_companies is that sum and the number of company records.
C3_EachCompanyCountedOnce ==
    entry \in {"main", "count"} =>
        /\ counts.with_uk + counts.without_uk = Len(cls)
        /\ pc = "count" => Len(cls) = i
        /\ CountPassReturned =>
              /\ counts.total_companies = counts.with_uk + counts.without_uk
              /\ counts.total_companies = Len(sampled)

\* returned from a sample of two companies, one in each class
C3_Witness ==
    /\ CountPassReturned
    /\ counts.with_uk >= 1
    /\ counts.without_uk >= 1
    /\ \E k \in 1..Len(sampled) : sampled[k].directors = <<>>

\* C4: questionable_residence is the number of director records with a UK
\* residence country and an address country that is not UK or is absent,
\* counted per director with no early exit; total_directors is the number of
\* director records.
C4_QuestionablePerDirector ==
    entry \in {"main", "count"} =>
        /\ counts.questionable_residence =
              Cardinality({kj \in DirectorsOfFirst(Len(cls)) :
                  QuestionableResidence(sampled[kj[1]].directors[kj[2]])})
        /\ counts.total_directors = Cardinality(DirectorsOfFirst(Len(cls)))
        /\ counts.questionable_residence <= counts.total_directors

\* returned, and a questionable director was counted although it follows a
\* UK-qualifying director of its own company
C4_Witness ==
    /\ CountPassReturned
    /\ counts.questionable_residence >= 1
    /\ \E k \in 1..Len(sampled) :
          /\ cls[k]
          /\ Len(sampled[k].directors) >= 2
          /\ UKQualifying(sampled[k].directors[1])
          /\ QuestionableResidence(sampled[k].directors[2])

----------------------------------------------------------------------------
\* C9: the short-circuit classifier of analyze_compliance gives every company
\* the group the full scan of count_companies_by_uk_director_status gave it,
\* so counts[group] is the number of companies analysed under that group.
C9_ClassifiersAgree ==
    entry = "main" =>
        /\ \A k \in 1..Len(grp) :
              grp[k] = (IF cls[k] THEN "with_uk" ELSE "without_uk")
        /\ (pc \in {"display", "ratio", "done"} \/ err \in {"ValueError", "ZeroDivisionError"}) =>
              /\ Len(grp) = Len(sampled)
              /\ \A g \in {"with_uk", "without_uk"} :
                    counts[g] = Cardinality({k \in 1..Len(grp) : grp[k] = g})

\* both passes are over; one company is in with_uk although a UK resident
\* with an address abroad comes before its qualifying director, another is
\* in without_uk
C9_Witness ==
    /\ entry = "main"
    /\ pc \in {"display", "ratio", "done", "failed"}
    /\ Len(grp) = Len(sampled)
    /\ \E k \in 1..Len(grp) : grp[k] = "without_uk"
    /\ \E k \in 1..Len(grp) :
          /\ grp[k] = "with_uk"
          /\ Len(sampled[k].directors) >= 2
          /\ QuestionableResidence(sampled[k].directors[1])
          /\ UKQualifying(sampled[k].directors[2])

\* C8: a director whose residence country, address mapping or address
\* country is missing (absent, empty or null) raises no error in any of the
\* three passes and adds no string to the extracted countries.
C8_MissingFieldsRaiseNothing ==
    /\ err # "AttributeError"
    /\ <<>> \notin countries

----------------------------------------------------------------------------
\* The report of a complete run of main, line by line.
FullReport ==
    <<Line("loaded", "all", "header"),
      Line("countries", "all", "header"), Line("countries", "all", "note"),
      Line("totals", "all", "header"), Line("totals", "all", "foreign"),
      Line("totals", "all", "questionable")>>
    \o [k \in 1..Len(DisplayLines) |->
           Line("indicators", DisplayLines[k].group, DisplayLines[k].key)]
    \o <<Line("ratio", "all", "header")>>

ReportSections == {"countries", "totals", "indicators", "ratio"}

\* the first line of the indicators whose count exceeds its base
FirstBadLine ==
    CHOOSE k \in 1..Len(DisplayLines) :
        /\ LineRaises(DisplayLines[k], counts, metrics)
        /\ \A n \in 1..(k - 1) : ~LineRaises(DisplayLines[n], counts, metrics)

\* C7 as stated: a run of main that fails has written no part of the report.
C7_NothingPrintedBeforeFailure ==
    (entry = "main" /\ pc = "failed") =>
        \A k \in 1..Len(output) : output[k].section \notin ReportSections

\* C7 as amended: a failure ends the run at the failing stage, with the
\* report cut short there: the lines written are the lines that come before
\* the failing computation, the ratio line is not among them, and only a run
\* with no failure writes the whole report.
C7_FailureCutsReportShort ==
    entry = "main" =>
        /\ pc = "done" => output = FullReport
        /\ pc = "failed" =>
              /\ err = "AttributeError" => output = SubSeq(FullReport, 1, 1)
              /\ err = "UnicodeEncodeError" => output = SubSeq(FullReport, 1, 2)
              /\ err = "ValueError" =>
                    output = SubSeq(FullReport, 1, 6 + FirstBadLine - 1)
              /\ err = "ZeroDivisionError" =>
                    output = SubSeq(FullReport, 1, Len(FullReport) - 1)
              /\ err \in {"AttributeError", "UnicodeEncodeError", "ValueError",
                          "ZeroDivisionError"}

\* the ratio stage failed on a sample that has companies, after every other
\* section was written
C7_Witness ==
    /\ entry = "main"
    /\ pc = "failed"
    /\ err = "ZeroDivisionError"
    /\ sampled # <<>>
    /\ Len(output) = Len(FullReport) - 1

----------------------------------------------------------------------------
\* a string that contains 'default address' in any case
MentionsDefaultAddress(v) ==
    /\ v.t = "str"
    /\ \E k \in 1..Len(v.s) : \E n \in k..Len(v.s) :
          lower(SubSeq(v.s, k, n)) = DefaultAddress

\* the registered address, or a string field of the address of a director
HasDefaultAddress(info) ==
    \/ MentionsDefaultAddress(info.company_data.RegAddressLine1)
    \/ \E j \in 1..Len(info.directors) :
          LET a == info.directors[j].address
          IN  /\ a.t = "dict"
              /\ \/ MentionsDefaultAddress(a.country)
                 \/ MentionsDefaultAddress(a.address_line_1)
                 \/ MentionsDefaultAddress(a.premises)

AnalysisReturned ==
    /\ entry = "main"
    /\ pc \in {"display", "ratio", "done"} \/ err \in {"ValueError", "ZeroDivisionError"}

\* C1: in analyze_compliance a company adds 1 to the default_address of its
\* group if its registered address or an address field of one of its
\* directors mentions a default address, and 0 otherwise: never more than 1.
C1_OneDefaultAddressPerCompany ==
    entry = "main" =>
        \A g \in {"with_uk", "without_uk"} :
            metrics[g].default_address =
                Cardinality({k \in 1..Len(grp) :
                    grp[k] = g /\ HasDefaultAddress(sampled[k])})

\* C10: after both passes every metric is at most the number of companies of
\* its group, so every proportion lies between 0 and 1.
C10_MetricsWithinCounts ==
    AnalysisReturned =>
        \A g \in {"with_uk", "without_uk"} :
            \A m \in {"late_confstmt", "late_accounts", "default_address"} :
                0 <= metrics[g][m] /\ metrics[g][m] <= counts[g]

\* C6: calculate_and_print_default_address_ratio raises ZeroDivisionError,
\* printing no ratio, exactly when with_uk is empty or has no default
\* address; on every other input it prints the ratio.
C6_RatioFailsIffUKRateZero ==
    entry \in {"main", "ratio"} =>
        /\ err = "ZeroDivisionError" =>
              /\ counts.with_uk = 0 \/ metrics.with_uk.default_address = 0
              /\ \A k \in 1..Len(output) : output[k].section # "ratio"
        /\ pc = "done" =>
              /\ counts.with_uk # 0
              /\ metrics.with_uk.default_address # 0
              /\ output # <<>>
              /\ output[Len(output)].section = "ratio"

\* the ratio failed in a run of main whose with_uk group has companies, none
\* of them at a default address
C6_Witness ==
    /\ entry = "main"
    /\ err = "ZeroDivisionError"
    /\ counts.with_uk >= 1
    /\ metrics.with_uk.default_address = 0
    /\ metrics.without_uk.default_address >= 1

----------------------------------------------------------------------------
\* Due dates as the register gives them, and runs on samples that differ in them.

\* '01/01/2000'
tJan2000 == <<48, 49, 47, 48, 49, 47, 50, 48, 48, 48>>
\* '1/1/2099'
tJan2099 == <<49, 47, 49, 47, 50, 48, 57, 57>>
\* '15/06/2024'
tToday == <<49, 53, 47, 48, 54, 47, 50, 48, 50, 52>>
\* ' 14/06/2024\r'
tYesterday == <<32, 49, 52, 47, 48, 54, 47, 50, 48, 50, 52, 13>>
\* '16/5/2024'
tEarlierMonth == <<49, 54, 47, 53, 47, 50, 48, 50, 52>>
\* 'N/A'
tNA == <<78, 47, 65>>
\* '31/02/2000'
tFeb31 == <<51, 49, 47, 48, 50, 47, 50, 48, 48, 48>>
\* '29/02/2000'
tLeapDay == <<50, 57, 47, 48, 50, 47, 50, 48, 48, 48>>
\* '01/01/20000'
tLongYear == <<48, 49, 47, 48, 49, 47, 50, 48, 48, 48, 48>>
\* '00/01/2000'
tDayZero == <<48, 48, 47, 48, 49, 47, 50, 48, 48, 48>>

DueDateTexts ==
    {tJan2000, tJan2099, tToday, tYesterday, tEarlierMonth, tNA, tFeb31, tLeapDay,
     tLongYear, tDayZero}

DueDateData ==
    {CompanyData(Str(tJan2000), Str(tNA), Absent),
     CompanyData(Str(tJan2099), Str(tYesterday), Absent),
     CompanyData(Str(tToday), Str(tEarlierMonth), Absent),
     CompanyData(Str(tFeb31), Str(tLeapDay), Absent),
     CompanyData(Str(tLongYear), Str(tToday), Absent),
     CompanyData(Absent, Str(tDayZero), Absent),
     CompanyData(Str(tLeapDay), Null, Absent)}

Today2 == <<2000, 2, 29>>

InitDates ==
    InitRun({VariantLines}, SamplesUpTo({dUK}, DueDateData), {Today1, Today2},
            {"main"})

SpecDates == InitDates /\ [][Next]_vars

\* The calendar, and the ways a date is written as day/month/year.
CalendarYears == 1990..2110
MonthLength == <<31, 28, 31, 30, 31, 30, 31, 31, 30, 31, 30, 31>>
LeapYear(y) == y % 4 = 0 /\ (y % 100 # 0 \/ y % 400 = 0)

CalendarDates ==
    {d \in CalendarYears \X (1..12) \X (1..31) :
        d[3] <= MonthLength[d[2]] + (IF d[2] = 2 /\ LeapYear(d[1]) THEN 1 ELSE 0)}

TwoDigits(n) == <<48 + (n \div 10), 48 + (n % 10)>>
Written(n) == {TwoDigits(n)} \cup (IF n < 10 THEN {<<48 + n>>} ELSE {})
FourDigits(y) == TwoDigits(y \div 100) \o TwoDigits(y % 100)

WaysToWrite(d) ==
    {dd \o <<47>> \o mm \o <<47>> \o FourDigits(d[1]) :
        dd \in Written(d[3]), mm \in Written(d[2])}

\* the due-date texts of the samples that are a date, each with its date
DatedTexts ==
    {<<td[1], td[2]>> :
        td \in {p \in DueDateTexts \X CalendarDates : strip(p[1]) \in WaysToWrite(p[2])}}

DayNumber(d) == d[1] * 10000 + d[2] * 100 + d[3]

\* the field is a date strictly before the processing date
DueBefore(field, now) ==
    /\ field.t = "str"
    /\ \E td \in DatedTexts : td[1] = field.s /\ DayNumber(td[2]) < DayNumber(now)

\* C5: analyze_compliance adds 1 to late_confstmt (late_accounts) of the
\* group of a company whose due date is a day/month/year date strictly before
\* the processing date and 0 for a date on or after it or a missing or
\* malformed field, which raises nothing and does not stop the pass.
C5_LateIffDueBeforeToday ==
    entry = "main" =>
        /\ \A g \in {"with_uk", "without_uk"} :
              /\ metrics[g].late_confstmt =
                    Cardinality({k \in 1..Len(grp) : grp[k] = g /\
                        DueBefore(sampled[k].company_data.ConfStmtNextDueDate, today)})
              /\ metrics[g].late_accounts =
                    Cardinality({k \in 1..Len(grp) : grp[k] = g /\
                        DueBefore(sampled[k].company_data.AccountsNextDueDate, today)})
        /\ err \notin {"ValueError", "AttributeError"}
        /\ pc \in {"display", "ratio", "done", "failed"} => Len(grp) = Len(sampled)

\* the pass is over: a company due today was not counted, a malformed date
\* was skipped, and a company after it was counted as late
C5_Witness ==
    /\ entry = "main"
    /\ pc = "display"
    /\ Len(sampled) = 2
    /\ sampled[1].company_data.ConfStmtNextDueDate = Str(tToday)
    /\ sampled[1].company_data.AccountsNextDueDate = Str(tEarlierMonth)
    /\ today = Today1
    /\ sampled[2].company_data.ConfStmtNextDueDate = Str(tFeb31)
    /\ grp[1] = grp[2]
    /\ metrics[grp[1]].late_confstmt = 0
    /\ metrics[grp[1]].late_accounts = 2

====
